---- MODULE Spec2Model ----
(***************************************************************************)
(* A model of the compiletest test-execution engine                        *)
(* (src/test/compiletest/runtest.rs): the mode dispatcher, the command     *)
(* composer, the error-pattern validator and the pretty-print round-trip   *)
(* verifier; and of get_fn (librustc_codegen_llvm/callee.rs), the          *)
(* memoized reference to a fn item on a codegen context.                   *)
(*                                                                         *)
(* Strings are sequences of one-character strings, so that splitting,      *)
(* searching and replacing are computed character by character, the way    *)
(* the code computes them.                                                 *)
(***************************************************************************)
EXTENDS Integers, Sequences, FiniteSets, TLC

VARIABLES
    config,     \* cx.config: the read-only configuration of the harness run
    props,      \* the test_props that load_props parsed for the test file
    testfile,   \* the path of the test file
    pc,         \* the position of the test in its mode's sequence
    procres,    \* the procres of the most recently completed invocation
    log,        \* the process invocations made so far, in order
    console,    \* what the engine wrote to its own stdout, in order
    outfile,    \* the content of the test's .out artifact
    errfile,    \* the content of the test's .err artifact
    srcs,       \* run_pretty_test: the source texts, one per round
    round,      \* run_pretty_test: the round counter
    expected,   \* run_pretty_test: the text compared as expected
    actual,     \* run_pretty_test: the text compared as actual
    golden,     \* run_pretty_test: the golden file's text as read from disk
    validated,  \* what check_error_patterns concluded (history of its locals)
    composed,   \* the procargs the command composer built last
    children,   \* the child processes started and not yet waited for
    goldenpath, \* run_pretty_test: the path the golden file was read from
    target_os,  \* the operating system the harness was built for
    artifacts,  \* the artifact paths computed for test files of one run
    cx,         \* get_fn: the codegen context (instance cache, module, tcx)
    calls       \* get_fn: the calls that returned so far, in order, each
                \* with its value and the module before and after it

vars == <<config, props, testfile, pc, procres, log, console, outfile,
          errfile, srcs, round, expected, actual, golden, validated,
          composed, children, goldenpath, target_os, artifacts, cx, calls>>

----------------------------------------------------------------------------
(* Bounds of the model.                                                    *)

\* longest stdout text handed to the error-pattern validator
MaxStdout == 5
\* most error patterns a test declares
MaxPats == 3
\* longest text a process of the engine specification prints
MaxOut == 2
\* longest flag string handed to the command composer
MaxFlagLen == 3
\* longest test file path handed to the artifact naming
MaxPathLen == 3
\* most calls of get_fn on one codegen context
MaxCalls == 3

----------------------------------------------------------------------------
(* Characters and texts.                                                   *)

NL == "\n"
CR == "\r"
SP == " "
TAB == "\t"

\* all texts over the characters cs of length at most n
TextsUpTo(cs, n) == UNION {[1..k -> cs] : k \in 0..n}

None == [some |-> FALSE, val |-> <<>>]
Some(s) == [some |-> TRUE, val |-> s]

----------------------------------------------------------------------------
(* Library functions the engine calls (std::str, std::vec, std::fs).       *)

\* str::find: the byte index of the first occurrence of needle, -1 if none
match_at(haystack, needle, i) ==
    \A j \in 1..Len(needle) : haystack[i + j] = needle[j]

str_find(haystack, needle) ==
    IF Len(needle) = 0 THEN 0
    ELSE LET hits == {i \in 0..(Len(haystack) - Len(needle)) :
                          match_at(haystack, needle, i)}
         IN  IF hits = {} THEN -1
             ELSE CHOOSE i \in hits : \A k \in hits : i <= k

\* str::split: the pieces between separators; a trailing separator yields a
\* last empty piece, the empty string yields no piece
RECURSIVE split_from(_, _, _, _, _, _)
split_from(s, sep, i, v, accum, ends_with_sep) ==
    IF i > Len(s)
    THEN IF Len(accum) # 0 \/ ends_with_sep THEN Append(v, accum) ELSE v
    ELSE IF s[i] = sep
         THEN split_from(s, sep, i + 1, Append(v, accum), <<>>, TRUE)
         ELSE split_from(s, sep, i + 1, v, Append(accum, s[i]), FALSE)

str_split(s, sep) == split_from(s, sep, 1, <<>>, <<>>, FALSE)

\* str::connect: the pieces joined with sep between them
RECURSIVE str_connect(_, _)
str_connect(v, sep) ==
    IF Len(v) = 0 THEN <<>>
    ELSE IF Len(v) = 1 THEN v[1]
    ELSE v[1] \o sep \o str_connect(Tail(v), sep)

\* str::replace, for a one-character `from`
RECURSIVE str_replace(_, _, _)
str_replace(s, from, to) ==
    IF Len(s) = 0 THEN <<>>
    ELSE IF s[1] = from THEN to \o str_replace(Tail(s), from, to)
    ELSE <<s[1]>> \o str_replace(Tail(s), from, to)

\* vec::slice(v, a, b): the elements at the 0-based indices a .. b-1
vec_slice(v, a, b) == SubSeq(v, a + 1, b)

\* fs::basename: what follows the last path separator; the path itself when
\* it has no separator or ends in one
fs_basename(p) ==
    LET seps == {i \in 1..Len(p) : p[i] = "/"}
    IN  IF seps = {} THEN p
        ELSE LET i == CHOOSE k \in seps : \A m \in seps : m <= k
             IN  IF i >= Len(p) THEN p ELSE SubSeq(p, i + 1, Len(p))

\* fs::dirname: what precedes the last path separator; "." when the path
\* has no separator
fs_dirname(p) ==
    LET seps == {i \in 1..Len(p) : p[i] = "/"}
    IN  IF seps = {} THEN <<".">>
        ELSE LET i == CHOOSE k \in seps : \A m \in seps : m <= k
             IN  SubSeq(p, 1, i - 1)

\* fs::connect: the two paths joined by one path separator
fs_connect(pre, post) ==
    IF Len(pre) > 0 /\ pre[Len(pre)] = "/" THEN pre \o post
    ELSE pre \o <<"/">> \o post

\* os::exec_suffix on the linux build: no suffix
os_exec_suffix == <<>>

\* util::lib_path_env_var and util::make_new_path: the variable's name and
\* the given path put in front of the variable's old value
lib_path_env_var == <<"L">>
make_new_path(path) == path \o <<":">> \o <<"e">>

----------------------------------------------------------------------------
(* The command composer.                                                   *)

\* is_whitespace, nested in split_maybe_args: every byte is a blank
is_whitespace(s) == \A i \in 1..Len(s) : s[i] = SP

\* rm_whitespace: vec::filter_map(flt, v) keeps the pieces flt maps to some
rm_whitespace(v) == SelectSeq(v, LAMBDA s : ~is_whitespace(s))

split_maybe_args(argstr) ==
    IF argstr.some THEN rm_whitespace(str_split(argstr.val, SP)) ELSE <<>>

output_base_name(cfg, tf) ==
    LET parts0 == str_split(fs_basename(tf), ".")
        parts == vec_slice(parts0, 0, Len(parts0) - 1)
        filename == str_connect(parts, <<".">>)
    IN  cfg.build_base \o filename \o <<".">> \o cfg.stage_id

make_out_name(cfg, tf, extension) ==
    output_base_name(cfg, tf) \o <<".">> \o extension

make_exe_name(cfg, tf) == output_base_name(cfg, tf) \o os_exec_suffix

make_compile_args(cfg, pr, tf) ==
    LET args0 == <<tf, <<"-", "o">>, make_exe_name(cfg, tf)>>
        args1 == args0 \o split_maybe_args(cfg.rustcflags)
        args2 == args1 \o split_maybe_args(pr.compile_flags)
    IN  [prog |-> cfg.rustc_path, args |-> args2]

\* (mutant) the wrapper is prepended even when the test suppresses it
make_run_args_always_tool(cfg, pr, tf) ==
    LET args == split_maybe_args(cfg.runtool) \o <<make_exe_name(cfg, tf)>>
    IN  [prog |-> args[1], args |-> vec_slice(args, 1, Len(args))]

make_run_args(cfg, pr, tf) ==
    LET toolargs == IF ~pr.no_valgrind
                    THEN split_maybe_args(cfg.runtool)
                    ELSE <<>>
        args == toolargs \o <<make_exe_name(cfg, tf)>>
    IN  [prog |-> args[1], args |-> vec_slice(args, 1, Len(args))]

make_pp_args(cfg, tf) ==
    [prog |-> cfg.rustc_path,
     args |-> << <<"-">>, <<"-", "-", "p">>, <<"n">> >>]

make_typecheck_args(cfg, tf) ==
    [prog |-> cfg.rustc_path,
     args |-> << <<"-">>, <<"-", "-", "n">>, <<"-", "-", "l">> >>]

lib_path_cmd_prefix(path) ==
    lib_path_env_var \o <<"=", "\"">> \o make_new_path(path) \o <<"\"">>

\* "%s %s %s" of the prefix, the program and the arguments joined by blanks
make_cmdline(libpath, prog, args) ==
    lib_path_cmd_prefix(libpath) \o <<SP>> \o prog \o <<SP>>
        \o str_connect(args, <<SP>>)

----------------------------------------------------------------------------
(* The error-pattern validator's scan (check_error_patterns, the loop).    *)

\* the loop over the lines of stdout: ret is TRUE when the loop returned
\* because every pattern was found, next_err_idx is the cursor at the end
RECURSIVE scan_lines(_, _, _, _)
scan_lines(pats, lines, i, next_err_idx) ==
    IF i > Len(lines)
    THEN [ret |-> FALSE, next_err_idx |-> next_err_idx]
    ELSE IF str_find(lines[i], pats[next_err_idx + 1]) > 0
         THEN IF next_err_idx + 1 = Len(pats)
              THEN [ret |-> TRUE, next_err_idx |-> next_err_idx + 1]
              ELSE scan_lines(pats, lines, i + 1, next_err_idx + 1)
         ELSE scan_lines(pats, lines, i + 1, next_err_idx)

\* (mutant) every declared pattern is taken as missing, whatever the cursor
missing_patterns_all(pats, next_err_idx) ==
    vec_slice(pats, 0, Len(pats))

\* the patterns left unconsumed when the scan ends at cursor next_err_idx
missing_patterns(pats, next_err_idx) ==
    vec_slice(pats, next_err_idx, Len(pats))

----------------------------------------------------------------------------
(* What the engine writes to its own stdout.                               *)

\* error(err): one line "\nerror: <err>"; arg is the text formatted into err
ErrorLine(msg, arg) == [kind |-> "error", msg |-> msg, arg |-> arg]

\* (mutant) only the exit status is a precondition
precondition_failure_status_only(pats, status, tf) ==
    IF status = 0
    THEN << ErrorLine("process did not return an error status", <<>>) >>
    ELSE <<>>

\* check_error_patterns, its two preconditions: what fatal() prints for the
\* first of them that fails, nothing when both hold
precondition_failure(pats, status, tf) ==
    IF Len(pats) = 0
    THEN << ErrorLine("no error pattern specified in ", tf) >>
    ELSE IF status = 0
    THEN << ErrorLine("process did not return an error status", <<>>) >>
    ELSE <<>>

\* (mutant) fatal_procres prints its message alone
ProcresBlock_message_only(msg, arg, pr) ==
    [kind |-> "fatal_procres", msg |-> msg, arg |-> arg,
     cmdline |-> <<>>, stdout |-> <<>>, stderr |-> <<>>]

\* fatal_procres(err, procres): the block with the message, the command
\* line and both captured streams
ProcresBlock(msg, arg, pr) ==
    [kind |-> "fatal_procres", msg |-> msg, arg |-> arg,
     cmdline |-> pr.cmdline, stdout |-> pr.stdout, stderr |-> pr.stderr]

\* maybe_dump_to_stdout: both streams between separator lines, when verbose
maybe_dump_to_stdout(cfg, out, err) ==
    IF cfg.verbose
    THEN << [kind |-> "echo", stdout |-> out, stderr |-> err] >>
    ELSE <<>>

\* the builds of dump_output_file: the linux build (the win32 build has the
\* same body) and the macos build
TargetOSes == {"linux", "macos"}

\* (mutant) the stream text is added at the artifact's end
dump_output_file_appending(os, old, text) ==
    IF os = "macos" THEN old ELSE old \o text

\* dump_output_file: the artifact's content after the stream text is dumped
\* to it; old is its content before
dump_output_file(os, old, text) ==
    IF os = "macos" THEN old ELSE text

\* compare_source's block with the expected and the actual text
DiffBlock(exp, act) == [kind |-> "diff", expected |-> exp, actual |-> act]

----------------------------------------------------------------------------
(* Values of the state.                                                    *)

Modes == {"mode_compile_fail", "mode_run_fail", "mode_run_pass",
          "mode_pretty"}

\* This is the value valgrind returns on failure
valgrind_err == 9

\* the exit statuses a process of the model ends with
Statuses == {0, 1, valgrind_err}

OutChars == {"a", "b", NL}
PPChars == {"a", CR}
FlagChars == {"a", SP, TAB}

\* the error patterns a test may declare, and the lists of them
Patterns == {<<"a">>, <<"b">>, <<"a", "b">>}
PatLists == UNION {[1..k -> Patterns] : k \in 0..MaxPats}

TheTestFile == <<"d", "/", "t", ".", "r">>
GoldenName == <<"t", ".", "p">>

NoProcres == [status |-> 0, stdout |-> <<>>, stderr |-> <<>>,
              cmdline |-> <<>>]
NoProcargs == [prog |-> <<>>, args |-> <<>>]
NoProps == [error_patterns |-> <<>>, pp_exact |-> None,
            compile_flags |-> None, no_valgrind |-> FALSE]
\* a codegen context before anything was declared or cached
NoCx == [instances |-> <<>>, llmod |-> <<>>, tcx |-> <<>>]

NotValidated == [entered |-> FALSE, ret |-> FALSE, next_err_idx |-> 0,
                 missing |-> <<>>]

BaseConfig(mode, verbose, runtool, rustcflags) ==
    [mode |-> mode, verbose |-> verbose,
     rustc_path |-> <<"r", "c">>,
     compile_lib_path |-> <<"c", "l">>,
     run_lib_path |-> <<"r", "l">>,
     runtool |-> runtool, rustcflags |-> rustcflags,
     build_base |-> <<"b", "/">>, stage_id |-> <<"s", "1">>]

\* the results procsrv::run may return for a process of each kind
ProcOutputs(kind) ==
    [status : Statuses,
     out : IF kind \in {"pretty", "typecheck"}
           THEN TextsUpTo(PPChars, MaxOut)
           ELSE TextsUpTo(OutChars, MaxOut),
     err : {<<>>, <<"e">>}]

----------------------------------------------------------------------------
(* The verdicts of the mode handlers on a completed invocation: either a   *)
(* fatal failure (fatal_procres with a message) or the next step.          *)

Fatal(msg, arg) == [fatal |-> TRUE, msg |-> msg, arg |-> arg,
                    next |-> "failed"]
Goto(next) == [fatal |-> FALSE, msg |-> "", arg |-> <<>>, next |-> next]

\* (mutant) the zero status of the compile step is not looked at
cfail_after_compile_unchecked(pr) ==
    Goto("check_error_patterns")

\* run_cfail_test, after compile_test
cfail_after_compile(pr) ==
    IF pr.status = 0
    THEN Fatal("compile-fail test compiled successfully!", <<>>)
    ELSE Goto("check_error_patterns")

\* (mutant) the artifact is executed whatever the compiler's exit status
rfail_after_compile_unchecked(pr) == Goto("rfail_exec")

\* run_rfail_test, after compile_test
rfail_after_compile(pr) ==
    IF pr.status # 0 THEN Fatal("compilation failed!", <<>>)
    ELSE Goto("rfail_exec")

\* (mutant) a run that ended with status 0 is handed to the validator
rfail_after_exec_zero_unchecked(pr) ==
    IF pr.status = valgrind_err
    THEN Fatal("run-fail test isn't valgrind-clean!", <<>>)
    ELSE Goto("check_error_patterns")

\* (mutant) the valgrind status is fatal only when the command line shows
\* that the wrapper tool ran
rfail_after_exec_sentinel_of_wrapper(pr) ==
    IF pr.status = 0
    THEN Fatal("run-fail test didn't produce an error!", <<>>)
    ELSE IF pr.status = valgrind_err /\ str_find(pr.cmdline, <<"v">>) >= 0
         THEN Fatal("run-fail test isn't valgrind-clean!", <<>>)
         ELSE Goto("check_error_patterns")

\* (mutant) the valgrind status is not told apart from other failures
rfail_after_exec_no_sentinel(pr) ==
    IF pr.status = 0
    THEN Fatal("run-fail test didn't produce an error!", <<>>)
    ELSE Goto("check_error_patterns")

\* run_rfail_test, after exec_compiled_test
rfail_after_exec(pr) ==
    IF pr.status = 0
    THEN Fatal("run-fail test didn't produce an error!", <<>>)
    ELSE IF pr.status = valgrind_err
         THEN Fatal("run-fail test isn't valgrind-clean!", <<>>)
         ELSE Goto("check_error_patterns")

\* (mutant) a failed compilation is tried again
rpass_after_compile_retrying(pr) ==
    IF pr.status # 0 THEN Goto("rpass_compile") ELSE Goto("rpass_exec")

\* run_rpass_test, after compile_test
rpass_after_compile(pr) ==
    IF pr.status # 0 THEN Fatal("compilation failed!", <<>>)
    ELSE Goto("rpass_exec")

\* (mutant) a clean run is handed to the error-pattern validator
rpass_after_exec_validating(pr) ==
    IF pr.status # 0 THEN Fatal("test run failed!", <<>>)
    ELSE Goto("check_error_patterns")

\* run_rpass_test, after exec_compiled_test
rpass_after_exec(pr) ==
    IF pr.status # 0 THEN Fatal("test run failed!", <<>>)
    ELSE Goto("passed")

\* (mutant) a single round, golden file or not
pretty_rounds_one(pr) == 1

\* run_pretty_test: the number of rounds
pretty_rounds(pr) == IF pr.pp_exact.some THEN 1 ELSE 2

\* (mutant) the pretty-printer's exit status is not looked at
pretty_after_round_unchecked(pr, rnd, rounds) ==
    IF rnd + 1 < rounds THEN Goto("pretty_round")
    ELSE Goto("compare_source")

\* run_pretty_test, after print_source in round rnd (arg: the round)
pretty_after_round(pr, rnd, rounds) ==
    IF pr.status # 0
    THEN Fatal("pretty-printing failed in round %d", <<rnd>>)
    ELSE IF rnd + 1 < rounds THEN Goto("pretty_round")
         ELSE Goto("compare_source")

\* (mutant) the type-check's exit status is not looked at
pretty_after_typecheck_unchecked(pr) == Goto("passed")

\* run_pretty_test, after typecheck_source
pretty_after_typecheck(pr) ==
    IF pr.status # 0
    THEN Fatal("pretty-printed source does not typecheck", <<>>)
    ELSE Goto("passed")

\* (mutant) without a golden file the test file's own text is expected
pretty_expected_first(pr, file, ss) ==
    IF pr.pp_exact.some THEN file ELSE ss[1]

\* run_pretty_test: the text compared as expected, before normalization
pretty_expected(pr, file, ss) ==
    IF pr.pp_exact.some THEN file ELSE ss[Len(ss) - 1]

\* run_pretty_test: the text compared as actual, before normalization
pretty_actual(ss) == ss[Len(ss)]

\* run_pretty_test: the source text handed to print_source in round rnd
pretty_input(ss, rnd) == ss[rnd + 1]

\* run_pretty_test: the path the golden file is read from
golden_filepath(tf, file) == fs_connect(fs_dirname(tf), file)

\* (mutant) line endings are left as they are
pretty_normalize_never(pr, text) == text

\* run_pretty_test: "Now we have to care about line endings"
pretty_normalize(pr, text) ==
    IF pr.pp_exact.some THEN str_replace(text, CR, <<>>) ELSE text

----------------------------------------------------------------------------
(* program_output: the process has run to its end with result res.         *)

program_output(lib_path, pa, res) ==
    [status |-> res.status, stdout |-> res.out, stderr |-> res.err,
     cmdline |-> make_cmdline(lib_path, pa.prog, pa.args)]

\* a child process: what procsrv::run was called with
Child(kind, pa, input) ==
    [kind |-> kind, prog |-> pa.prog, args |-> pa.args, input |-> input]

\* (mutant) the handler goes on while its child is still running
handler_blocked_never(ch) == FALSE

\* program_output is inside procsrv::run until its child has ended
handler_blocked(ch) == Len(ch) > 0

\* compose_and_run, program_output and dump_output for one invocation whose
\* child has ended with result pr, then the handler's verdict v on it
Invoked(kind, pa, input, pr, v) ==
    /\ Len(children) > 0
    /\ children[1] = Child(kind, pa, input)
    /\ children' = Tail(children)
    /\ composed' = pa
    /\ procres' = pr
    /\ log' = Append(log, [kind |-> kind, prog |-> pa.prog,
                           args |-> pa.args, input |-> input,
                           status |-> pr.status])
    /\ outfile' = dump_output_file(target_os, outfile, pr.stdout)
    /\ errfile' = dump_output_file(target_os, errfile, pr.stderr)
    /\ console' = console
                    \o maybe_dump_to_stdout(config, pr.stdout, pr.stderr)
                    \o (IF v.fatal THEN <<ProcresBlock(v.msg, v.arg, pr)>>
                        ELSE <<>>)
    /\ pc' = v.next

----------------------------------------------------------------------------
(* The engine: one test run, from run() to its pass or its failure.        *)

\* The configurations and test properties of the engine specification. A
\* field that the mode's handler never reads is held at its default; the
\* wrapper tool and the test's own compile flags, which only change the
\* composed arguments, are varied in the configurations that are not
\* verbose, and no_valgrind where a wrapper is configured.
RunModes == {"mode_run_fail", "mode_run_pass"}

EngineConfigs ==
    {BaseConfig(m, vb, rt, None) :
        m \in Modes, vb \in BOOLEAN, rt \in {None, Some(<<"v", SP, "q">>)}}

EnginePatLists == {<<>>, << <<"a">> >>, << <<"a">>, <<"b">> >>}

EngineProps(cfg) ==
    [error_patterns : IF cfg.mode = "mode_pretty" THEN {<<>>}
                      ELSE EnginePatLists,
     pp_exact : IF cfg.mode = "mode_pretty" THEN {None, Some(GoldenName)}
                ELSE {None},
     compile_flags : IF cfg.mode = "mode_pretty" \/ cfg.verbose THEN {None}
                     ELSE {None, Some(<<"a">>)},
     no_valgrind : IF cfg.runtool.some THEN BOOLEAN ELSE {FALSE}]

Init ==
    /\ config \in {c \in EngineConfigs :
                      c.runtool.some => c.mode \in RunModes /\ ~c.verbose}
    /\ props = NoProps
    /\ testfile = TheTestFile
    /\ pc = "run"
    /\ procres = NoProcres
    /\ log = <<>>
    /\ console = <<>>
    /\ outfile = <<>>
    /\ errfile = <<>>
    /\ srcs = <<>>
    /\ round = 0
    /\ expected = <<>>
    /\ actual = <<>>
    /\ golden = <<>>
    /\ validated = NotValidated
    /\ composed = NoProcargs
    /\ children = <<>>
    /\ goldenpath = None
    /\ target_os \in TargetOSes
    /\ artifacts = <<>>
    /\ cx = NoCx
    /\ calls = <<>>

\* the first step of the handler run() dispatches to
first_step(mode) ==
    CASE mode = "mode_compile_fail" -> "cfail_compile"
      [] mode = "mode_run_fail" -> "rfail_compile"
      [] mode = "mode_run_pass" -> "rpass_compile"
      [] mode = "mode_pretty" -> "pretty_round"

\* run(): load_props, the dispatch on the mode, and for mode_pretty the
\* handler's start up to its first round (the test file is read into srcs)
Run ==
    /\ pc = "run"
    /\ \E p \in EngineProps(config) : props' = p
    /\ console' = IF config.verbose
                  THEN Append(console, [kind |-> "newlines"])
                  ELSE console
    /\ IF config.mode = "mode_pretty"
       THEN \E text \in TextsUpTo(PPChars, MaxOut) : srcs' = <<text>>
       ELSE srcs' = srcs
    /\ round' = 0
    /\ pc' = first_step(config.mode)
    /\ UNCHANGED <<config, testfile, procres, log, outfile, errfile,
                   expected, actual, golden, validated, composed, children,
                   goldenpath, target_os, artifacts,
                   cx, calls>>

\* the positions at which a handler starts a process, and the process it
\* starts there
InvokingSteps == {"cfail_compile", "rfail_compile", "rfail_exec",
                  "rpass_compile", "rpass_exec", "pretty_round", "typecheck"}

next_child(p) ==
    CASE p \in {"cfail_compile", "rfail_compile", "rpass_compile"} ->
           Child("compile", make_compile_args(config, props, testfile), None)
      [] p \in {"rfail_exec", "rpass_exec"} ->
           Child("run", make_run_args(config, props, testfile), None)
      [] p = "pretty_round" ->
           Child("pretty", make_pp_args(config, testfile),
                 Some(pretty_input(srcs, round)))
      [] p = "typecheck" ->
           Child("typecheck", make_typecheck_args(config, testfile),
                 Some(actual))

\* compose_and_run up to the call of procsrv::run: the child is started
StartProcess ==
    /\ pc \in InvokingSteps
    /\ ~handler_blocked(children)
    /\ children' = Append(children, next_child(pc))
    /\ UNCHANGED <<config, props, testfile, pc, procres, log, console,
                   outfile, errfile, srcs, round, expected, actual, golden,
                   validated, composed, goldenpath, target_os, artifacts,
                   cx, calls>>

CFailCompile ==
    /\ pc = "cfail_compile"
    /\ \E res \in ProcOutputs("compile") :
         LET pa == make_compile_args(config, props, testfile)
             pr == program_output(config.compile_lib_path, pa, res)
         IN  Invoked("compile", pa, None, pr, cfail_after_compile(pr))
    /\ UNCHANGED <<config, props, testfile, srcs, round, expected, actual,
                   golden, validated, goldenpath, target_os, artifacts,
                   cx, calls>>

RFailCompile ==
    /\ pc = "rfail_compile"
    /\ \E res \in ProcOutputs("compile") :
         LET pa == make_compile_args(config, props, testfile)
             pr == program_output(config.compile_lib_path, pa, res)
         IN  Invoked("compile", pa, None, pr, rfail_after_compile(pr))
    /\ UNCHANGED <<config, props, testfile, srcs, round, expected, actual,
                   golden, validated, goldenpath, target_os, artifacts,
                   cx, calls>>

RFailExec ==
    /\ pc = "rfail_exec"
    /\ \E res \in ProcOutputs("run") :
         LET pa == make_run_args(config, props, testfile)
             pr == program_output(config.run_lib_path, pa, res)
         IN  Invoked("run", pa, None, pr, rfail_after_exec(pr))
    /\ UNCHANGED <<config, props, testfile, srcs, round, expected, actual,
                   golden, validated, goldenpath, target_os, artifacts,
                   cx, calls>>

RPassCompile ==
    /\ pc = "rpass_compile"
    /\ \E res \in ProcOutputs("compile") :
         LET pa == make_compile_args(config, props, testfile)
             pr == program_output(config.compile_lib_path, pa, res)
         IN  Invoked("compile", pa, None, pr, rpass_after_compile(pr))
    /\ UNCHANGED <<config, props, testfile, srcs, round, expected, actual,
                   golden, validated, goldenpath, target_os, artifacts,
                   cx, calls>>

RPassExec ==
    /\ pc = "rpass_exec"
    /\ \E res \in ProcOutputs("run") :
         LET pa == make_run_args(config, props, testfile)
             pr == program_output(config.run_lib_path, pa, res)
         IN  Invoked("run", pa, None, pr, rpass_after_exec(pr))
    /\ UNCHANGED <<config, props, testfile, srcs, round, expected, actual,
                   golden, validated, goldenpath, target_os, artifacts,
                   cx, calls>>

\* one turn of the loop of run_pretty_test: print_source on srcs[round]
PrettyRound ==
    /\ pc = "pretty_round"
    /\ round < pretty_rounds(props)
    /\ \E res \in ProcOutputs("pretty") :
         LET pa == make_pp_args(config, testfile)
             pr == program_output(config.compile_lib_path, pa, res)
             v == pretty_after_round(pr, round, pretty_rounds(props))
         IN  /\ Invoked("pretty", pa, Some(pretty_input(srcs, round)), pr, v)
             /\ IF v.fatal
                THEN UNCHANGED <<srcs, round>>
                ELSE /\ srcs' = Append(srcs, pr.stdout)
                     /\ round' = round + 1
    /\ UNCHANGED <<config, props, testfile, expected, actual, golden,
                   validated, goldenpath, target_os, artifacts,
                   cx, calls>>

\* run_pretty_test after the loop: the golden file is read when one is
\* configured, both texts are normalized, then compare_source
CompareSource ==
    /\ pc = "compare_source"
    /\ \E file \in (IF props.pp_exact.some
                    THEN TextsUpTo(PPChars, MaxOut) ELSE {<<>>}) :
         LET exp == pretty_normalize(props,
                        pretty_expected(props, file, srcs))
             act == pretty_normalize(props, pretty_actual(srcs))
         IN  /\ golden' = file
             /\ goldenpath' = IF props.pp_exact.some
                              THEN Some(golden_filepath(testfile,
                                                        props.pp_exact.val))
                              ELSE None
             /\ expected' = exp
             /\ actual' = act
             /\ IF exp # act
                THEN /\ console' = console \o
                        << ErrorLine(
                             "pretty-printed source does match expected source",
                             <<>>),
                           DiffBlock(exp, act) >>
                     /\ pc' = "failed"
                ELSE /\ console' = console
                     /\ pc' = "typecheck"
    /\ UNCHANGED <<config, props, testfile, procres, log, outfile, errfile,
                   srcs, round, validated, composed, children, target_os,
                   artifacts,
                   cx, calls>>

\* typecheck_source on the text that was compared as actual
TypecheckSource ==
    /\ pc = "typecheck"
    /\ \E res \in ProcOutputs("typecheck") :
         LET pa == make_typecheck_args(config, testfile)
             pr == program_output(config.compile_lib_path, pa, res)
         IN  Invoked("typecheck", pa, Some(actual), pr,
                     pretty_after_typecheck(pr))
    /\ UNCHANGED <<config, props, testfile, srcs, round, expected, actual,
                   golden, validated, goldenpath, target_os, artifacts,
                   cx, calls>>

\* check_error_patterns, whole
CheckErrorPatterns ==
    /\ pc = "check_error_patterns"
    /\ IF precondition_failure(props.error_patterns, procres.status,
                               testfile) # <<>>
       THEN /\ console' = console \o
                  precondition_failure(props.error_patterns, procres.status,
                                       testfile)
            /\ validated' = [NotValidated EXCEPT !.entered = TRUE]
            /\ pc' = "failed"
       ELSE IF Len(props.error_patterns) = 0
       THEN \* props.error_patterns[next_err_idx]: the index is out of bounds
            /\ console' = console
            /\ validated' = [NotValidated EXCEPT !.entered = TRUE]
            /\ pc' = "failed"
       ELSE LET r == scan_lines(props.error_patterns,
                                str_split(procres.stdout, NL), 1, 0)
                missing == missing_patterns(props.error_patterns,
                                            r.next_err_idx)
            IN  IF r.ret
                THEN /\ console' = console
                     /\ validated' = [entered |-> TRUE, ret |-> TRUE,
                                      next_err_idx |-> r.next_err_idx,
                                      missing |-> <<>>]
                     /\ pc' = "passed"
                ELSE /\ validated' = [entered |-> TRUE, ret |-> FALSE,
                                      next_err_idx |-> r.next_err_idx,
                                      missing |-> missing]
                     /\ pc' = "failed"
                     /\ IF Len(missing) = 1
                        THEN console' = Append(console,
                               ProcresBlock("error pattern '%s' not found!",
                                            missing[1], procres))
                        ELSE console' = console
                               \o [i \in 1..Len(missing) |->
                                     ErrorLine(
                                       "error pattern '%s' not found!",
                                       missing[i])]
                               \o << ProcresBlock(
                                       "multiple error patterns not found",
                                       <<>>, procres) >>
    /\ UNCHANGED <<config, props, testfile, procres, log, outfile, errfile,
                   srcs, round, expected, actual, golden, composed, children,
                   goldenpath, target_os, artifacts,
                   cx, calls>>

Next ==
    \/ Run
    \/ StartProcess
    \/ CFailCompile
    \/ RFailCompile
    \/ RFailExec
    \/ RPassCompile
    \/ RPassExec
    \/ PrettyRound
    \/ CompareSource
    \/ TypecheckSource
    \/ CheckErrorPatterns

Spec == Init /\ [][Next]_vars

----------------------------------------------------------------------------
(* The error-pattern validator on its own: check_error_patterns entered    *)
(* from run_cfail_test or run_rfail_test with longer stdout texts.         *)

\* the log entry of an invocation made with the arguments pa
Invocation(kind, pa, status) ==
    [kind |-> kind, prog |-> pa.prog, args |-> pa.args, input |-> None,
     status |-> status]

ValidateInit ==
    \E m \in {"mode_compile_fail", "mode_run_fail"},
       pats \in PatLists,
       out \in TextsUpTo(OutChars, MaxStdout),
       st \in Statuses \ {0} :
      LET cfg == BaseConfig(m, FALSE, None, None)
          pr == [NoProps EXCEPT !.error_patterns = pats]
          cpa == make_compile_args(cfg, pr, TheTestFile)
          rpa == make_run_args(cfg, pr, TheTestFile)
          res == [status |-> st, out |-> out, err |-> <<>>]
      IN  /\ (m = "mode_run_fail") => st # valgrind_err
          /\ config = cfg
          /\ props = pr
          /\ testfile = TheTestFile
          /\ pc = "check_error_patterns"
          /\ procres = IF m = "mode_compile_fail"
                       THEN program_output(cfg.compile_lib_path, cpa, res)
                       ELSE program_output(cfg.run_lib_path, rpa, res)
          /\ log = IF m = "mode_compile_fail"
                   THEN << Invocation("compile", cpa, st) >>
                   ELSE << Invocation("compile", cpa, 0),
                           Invocation("run", rpa, st) >>
          /\ console = <<>>
          /\ outfile = out
          /\ errfile = <<>>
          /\ srcs = <<>>
          /\ round = 0
          /\ expected = <<>>
          /\ actual = <<>>
          /\ golden = <<>>
          /\ validated = NotValidated
          /\ composed = IF m = "mode_compile_fail" THEN cpa ELSE rpa
          /\ children = <<>>
          /\ goldenpath = None
          /\ target_os = "linux"
          /\ artifacts = <<>>
          /\ cx = NoCx
          /\ calls = <<>>

NextValidate == CheckErrorPatterns

SpecValidate == ValidateInit /\ [][NextValidate]_vars

----------------------------------------------------------------------------
(* The command composer on its own: make_compile_args and make_run_args    *)
(* applied to flag strings and wrapper strings of every shape.             *)

FlagOpts == {None} \cup {Some(f) : f \in TextsUpTo(FlagChars, MaxFlagLen)}

ComposeInit ==
    \E gf \in FlagOpts, tf \in FlagOpts, rt \in FlagOpts, nv \in BOOLEAN :
      /\ \/ rt = None /\ nv = FALSE
         \/ gf = None /\ tf = None
      /\ config = BaseConfig("mode_run_pass", FALSE, rt, gf)
      /\ props = [NoProps EXCEPT !.compile_flags = tf, !.no_valgrind = nv]
      /\ testfile = TheTestFile
      /\ pc = "compose"
      /\ procres = NoProcres
      /\ log = <<>>
      /\ console = <<>>
      /\ outfile = <<>>
      /\ errfile = <<>>
      /\ srcs = <<>>
      /\ round = 0
      /\ expected = <<>>
      /\ actual = <<>>
      /\ golden = <<>>
      /\ validated = NotValidated
      /\ composed = NoProcargs
      /\ children = <<>>
      /\ goldenpath = None
      /\ target_os = "linux"
      /\ artifacts = <<>>
      /\ cx = NoCx
      /\ calls = <<>>

ComposeCompile ==
    /\ pc = "compose"
    /\ composed' = make_compile_args(config, props, testfile)
    /\ pc' = "composed_compile"
    /\ UNCHANGED <<config, props, testfile, procres, log, console, outfile,
                   errfile, srcs, round, expected, actual, golden,
                   validated, children, goldenpath, target_os, artifacts,
                   cx, calls>>

ComposeRun ==
    /\ pc = "compose"
    /\ composed' = make_run_args(config, props, testfile)
    /\ pc' = "composed_run"
    /\ UNCHANGED <<config, props, testfile, procres, log, console, outfile,
                   errfile, srcs, round, expected, actual, golden,
                   validated, children, goldenpath, target_os, artifacts,
                   cx, calls>>

NextCompose ==
    \/ ComposeCompile
    \/ ComposeRun

SpecCompose == ComposeInit /\ [][NextCompose]_vars

----------------------------------------------------------------------------
(* The artifact naming on its own: the names that two tests of one run,    *)
(* started on two different test files, compute for their artifacts.       *)

PathChars == {"t", "u", ".", "/"}

\* the paths of test files: not empty and not ending in a path separator
TestPaths ==
    {p \in TextsUpTo(PathChars, MaxPathLen) :
        Len(p) > 0 /\ p[Len(p)] # "/"}

\* the names dump_output_file and make_compile_args compute for a test file
ArtifactsOf(cfg, tf) ==
    [testfile |-> tf,
     out |-> make_out_name(cfg, tf, <<"o", "u", "t">>),
     err |-> make_out_name(cfg, tf, <<"e", "r", "r">>),
     exe |-> make_exe_name(cfg, tf)]

NamesInit ==
    /\ config = BaseConfig("mode_run_pass", FALSE, None, None)
    /\ props = NoProps
    /\ testfile = TheTestFile
    /\ pc = "names"
    /\ procres = NoProcres
    /\ log = <<>>
    /\ console = <<>>
    /\ outfile = <<>>
    /\ errfile = <<>>
    /\ srcs = <<>>
    /\ round = 0
    /\ expected = <<>>
    /\ actual = <<>>
    /\ golden = <<>>
    /\ validated = NotValidated
    /\ composed = NoProcargs
    /\ children = <<>>
    /\ goldenpath = None
    /\ target_os = "linux"
    /\ artifacts = <<>>
    /\ cx = NoCx
    /\ calls = <<>>

\* one more test of the run, on a test file no other test was started on,
\* computes the names of its artifacts; two tests are looked at
ArtifactNames ==
    /\ pc = "names"
    /\ Len(artifacts) < 2
    /\ \E tf \in TestPaths :
         /\ \A i \in 1..Len(artifacts) : artifacts[i].testfile # tf
         /\ artifacts' = Append(artifacts, ArtifactsOf(config, tf))
    /\ UNCHANGED <<config, props, testfile, pc, procres, log, console,
                   outfile, errfile, srcs, round, expected, actual, golden,
                   validated, composed, children, goldenpath, target_os,
                   cx, calls>>

NextNames == ArtifactNames

SpecNames == NamesInit /\ [][NextNames]_vars

----------------------------------------------------------------------------
(* get_fn (librustc_codegen_llvm/callee.rs): a reference to a fn item on a *)
(* codegen context. cx.instances is the instance cache, cx.llmod the       *)
(* values declared in the LLVM module by symbol name, cx.tcx the answers   *)
(* of the queries get_fn asks.                                             *)

\* an instance: its symbol name, its fn type and what tcx says of its item
Inst(id, sym, fn_ty, generic, local, flags) ==
    [id |-> id, sym |-> sym, fn_ty |-> fn_ty, is_generic |-> generic,
     is_local |-> local, is_inline |-> "inline" \in flags,
     is_unreachable_local_definition |-> "unreachable" \in flags,
     in_upstream_monomorphizations |-> "upstream" \in flags,
     is_codegened_item |-> "codegened" \in flags,
     is_reachable_non_generic |-> "reachable" \in flags,
     is_dllimport_foreign_item |-> "dllimport" \in flags]

\* the instances get_fn is called with: monomorphic, as its assertions
\* demand. "fa" and "fb" are two bindings of one foreign function, with
\* the same symbol name and different types.
Instances ==
    {Inst("fa", "f", "t1", FALSE, FALSE, {"dllimport"}),
     Inst("fb", "f", "t2", FALSE, FALSE, {}),
     Inst("ga", "g", "t1", TRUE, TRUE, {"unreachable", "inline"}),
     Inst("gb", "h", "t1", TRUE, TRUE, {}),
     Inst("ua", "u", "t2", TRUE, FALSE, {"upstream"}),
     Inst("ub", "v", "t2", TRUE, FALSE, {}),
     Inst("na", "n", "t1", FALSE, TRUE, {"codegened"}),
     Inst("nb", "m", "t1", FALSE, TRUE, {"codegened", "reachable"}),
     Inst("nc", "k", "t2", FALSE, FALSE, {"codegened"})}

\* a value of the module as a declaration: nothing set on it yet
Declaration(ty) ==
    [ty |-> ty, linkage |-> "external", visibility |-> "default",
     inline_hint |-> FALSE, dll_storage_class |-> "default"]

\* declare::get_declared_value: the value of that name, if the module has
\* one
get_declared_value(llmod, sym) ==
    IF sym \in DOMAIN llmod THEN Some([sym |-> sym, ty |-> llmod[sym].ty,
                                       cast |-> FALSE])
    ELSE None

\* declare::declare_fn: the module with a function of that name and type
declare_fn(llmod, sym, fn_ty) ==
    [n \in DOMAIN llmod \cup {sym} |->
        IF n = sym THEN Declaration(fn_ty) ELSE llmod[n]]

\* consts::ptrcast: the constant that casts the value to the type
ptrcast(val, ty) == [sym |-> val.sym, ty |-> ty, cast |-> TRUE]

\* the visibility get_fn applies to the item it has just declared
visibility(tcx, inst) ==
    IF inst.is_generic
    THEN IF tcx.share_generics
         THEN IF inst.is_local
              THEN IF inst.is_unreachable_local_definition
                        \/ ~tcx.local_crate_exports_generics
                   THEN "hidden" ELSE "default"
              ELSE IF inst.in_upstream_monomorphizations THEN "default"
                   ELSE IF ~tcx.local_crate_exports_generics
                        THEN "hidden" ELSE "default"
         ELSE "hidden"
    ELSE IF inst.is_codegened_item
         THEN IF inst.is_local
              THEN IF ~inst.is_reachable_non_generic
                   THEN "hidden" ELSE "default"
              ELSE "hidden"
         ELSE "default"

\* get_fn, the branch that declares: declare_fn, the inline hint, the
\* linkage, the visibility and the DLL storage class of the new item
declared_item(tcx, inst) ==
    [Declaration(inst.fn_ty) EXCEPT
       !.inline_hint = inst.is_inline,
       !.linkage = "external",
       !.visibility = visibility(tcx, inst),
       !.dll_storage_class =
          IF tcx.use_dll_storage_attrs /\ inst.is_dllimport_foreign_item
          THEN "dllimport" ELSE "default"]

\* get_fn past the cache: the value it comes to and the module it leaves
get_fn_uncached(llmod, tcx, inst) ==
    LET found == get_declared_value(llmod, inst.sym)
    IN  IF found.some
        THEN [llfn |-> IF found.val.ty # inst.fn_ty
                       THEN ptrcast(found.val, inst.fn_ty)
                       ELSE found.val,
              llmod |-> llmod]
        ELSE [llfn |-> [sym |-> inst.sym, ty |-> inst.fn_ty,
                        cast |-> FALSE],
              llmod |-> [n \in DOMAIN declare_fn(llmod, inst.sym,
                                                  inst.fn_ty) |->
                           IF n = inst.sym THEN declared_item(tcx, inst)
                           ELSE llmod[n]]]

\* (mutant) the value is returned without being put into the cache
cache_insert_skipped(instances, inst, llfn) == instances

\* cx.instances.borrow_mut().insert(instance, llfn)
cache_insert(instances, inst, llfn) ==
    [i \in DOMAIN instances \cup {inst.id} |->
        IF i = inst.id THEN llfn ELSE instances[i]]

\* the modules a codegen unit starts get_fn with: nothing declared, or an
\* item already predefined under one of the names, with one of the types
StartModules ==
    { [n \in {} |-> Declaration("t1")] }
      \cup { [n \in {sym} |->
                [Declaration(ty) EXCEPT !.linkage = "internal"]] :
              sym \in {"f", "g"}, ty \in {"t1", "t2"} }

TcxAnswers ==
    [share_generics : BOOLEAN, local_crate_exports_generics : BOOLEAN,
     use_dll_storage_attrs : BOOLEAN]

GetFnInit ==
    /\ config = BaseConfig("mode_run_pass", FALSE, None, None)
    /\ props = NoProps
    /\ testfile = TheTestFile
    /\ pc = "codegen"
    /\ procres = NoProcres
    /\ log = <<>>
    /\ console = <<>>
    /\ outfile = <<>>
    /\ errfile = <<>>
    /\ srcs = <<>>
    /\ round = 0
    /\ expected = <<>>
    /\ actual = <<>>
    /\ golden = <<>>
    /\ validated = NotValidated
    /\ composed = NoProcargs
    /\ children = <<>>
    /\ goldenpath = None
    /\ target_os = "linux"
    /\ artifacts = <<>>
    /\ \E m \in StartModules, t \in TcxAnswers :
         cx = [instances |-> <<>>, llmod |-> m, tcx |-> t]
    /\ calls = <<>>

\* one call of get_fn, whole: answered from the cache, or computed, put
\* into the cache and returned
GetFn ==
    /\ pc = "codegen"
    /\ Len(calls) < MaxCalls
    /\ \E inst \in Instances :
         IF inst.id \in DOMAIN cx.instances
         THEN /\ cx' = cx
              /\ calls' = Append(calls,
                    [instance |-> inst.id, ret |-> cx.instances[inst.id],
                     before |-> cx.llmod, after |-> cx'.llmod])
         ELSE LET r == get_fn_uncached(cx.llmod, cx.tcx, inst)
              IN  /\ cx' = [cx EXCEPT
                              !.llmod = r.llmod,
                              !.instances = cache_insert(cx.instances, inst,
                                                         r.llfn)]
                  /\ calls' = Append(calls,
                        [instance |-> inst.id, ret |-> r.llfn,
                         before |-> cx.llmod, after |-> cx'.llmod])
    /\ UNCHANGED <<config, props, testfile, pc, procres, log, console,
                   outfile, errfile, srcs, round, expected, actual, golden,
                   validated, composed, children, goldenpath, target_os,
                   artifacts>>

NextGetFn == GetFn

SpecGetFn == GetFnInit /\ [][NextGetFn]_vars

----------------------------------------------------------------------------
(* Predicates on the state used by the properties.                         *)

Terminated == pc \in {"passed", "failed"}

LastLine == console[Len(console)]

\* the test was aborted by fatal_procres with the message msg, which
\* carries the result of the last invocation
FailedWith(msg) ==
    /\ pc = "failed"
    /\ Len(console) > 0
    /\ LastLine.kind = "fatal_procres"
    /\ LastLine.msg = msg
    /\ LastLine.cmdline = procres.cmdline
    /\ LastLine.stdout = procres.stdout
    /\ LastLine.stderr = procres.stderr

\* the invocations of one kind made so far
Invocations(kind) == SelectSeq(log, LAMBDA e : e.kind = kind)

\* line contains pat somewhere, its very start included
Contains(line, pat) ==
    \E i \in 1..(Len(line) - Len(pat) + 1) :
        SubSeq(line, i, i + Len(pat) - 1) = pat

\* there are lines k_i < k_(i+1) < ..., all at or after from, such that
\* line k_j contains pats[j] for every j >= i
RECURSIVE OccurInOrder(_, _, _, _)
OccurInOrder(pats, lines, i, from) ==
    IF i > Len(pats) THEN TRUE
    ELSE \E k \in from..Len(lines) :
            /\ Contains(lines[k], pats[i])
            /\ OccurInOrder(pats, lines, i + 1, k + 1)

\* check_error_patterns went past its two preconditions and scanned stdout
Scanned ==
    /\ validated.entered
    /\ Len(props.error_patterns) > 0
    /\ procres.status # 0

----------------------------------------------------------------------------
(* The properties.                                                         *)

\* C1: for a non-empty pattern list and the stdout of a process that ended
\* with a non-zero status, check_error_patterns returns normally if and
\* only if the patterns occur, in order, on lines of strictly increasing
\* index, where a line contains a pattern wherever the pattern occurs in
\* it, the very start of the line included.
C1_SucceedsIffInOrder ==
    Scanned =>
        (validated.ret <=>
            OccurInOrder(props.error_patterns,
                         str_split(procres.stdout, NL), 1, 1))

\* C2: when the scan ends with k >= 1 patterns unconsumed the test never
\* passes; for k = 1 the one fatal block names exactly the missing pattern;
\* for k > 1 the k patterns from the cursor on are reported one by one, in
\* declared order, and then one combined fatal block carries the command
\* line and both streams of the process.
C2_MissingPatternsReported ==
    LET pats == props.error_patterns
        k == Len(pats) - validated.next_err_idx
        n == Len(console)
    IN  (Scanned /\ k >= 1) =>
          /\ pc = "failed"
          /\ ~validated.ret
          /\ n >= (IF k = 1 THEN 1 ELSE k + 1)
          /\ IF k = 1
             THEN /\ FailedWith("error pattern '%s' not found!")
                  /\ LastLine.arg = pats[Len(pats)]
                  /\ \A i \in 1..(n - 1) : console[i].kind = "echo"
             ELSE /\ FailedWith("multiple error patterns not found")
                  /\ \A i \in 1..k :
                        /\ console[n - k - 1 + i].kind = "error"
                        /\ console[n - k - 1 + i].msg
                              = "error pattern '%s' not found!"
                        /\ console[n - k - 1 + i].arg
                              = pats[validated.next_err_idx + i]
                  /\ \A i \in 1..(n - k - 1) : console[i].kind = "echo"

\* C2 witness: a test with three patterns whose first pattern was found
\* and whose other two were reported
C2_Witness ==
    /\ pc = "failed"
    /\ Scanned
    /\ validated.next_err_idx = 1
    /\ Len(validated.missing) = 2

\* C3: in compile-fail mode a compile step that exits 0 ends the test in
\* the fatal failure "compile-fail test compiled successfully!", whatever
\* the test properties and the captured output are; check_error_patterns
\* is not entered and the test does not pass.
C3_CompiledSuccessfullyIsFatal ==
    (/\ config.mode = "mode_compile_fail"
     /\ Len(log) >= 1
     /\ log[1].status = 0) =>
        /\ FailedWith("compile-fail test compiled successfully!")
        /\ ~validated.entered
        /\ Len(log) = 1

\* C3 witness: a compile-fail test that declares patterns and flags and
\* whose compile step exited 0 with some output
C3_Witness ==
    /\ config.mode = "mode_compile_fail"
    /\ Len(log) = 1
    /\ log[1].status = 0
    /\ Len(props.error_patterns) = 2
    /\ props.compile_flags.some
    /\ Len(procres.stdout) > 0
    /\ pc = "failed"

\* C4: in run-fail mode, after a compile step that exited 0, a run step
\* that exits with the status 9 ends the test in the fatal failure
\* "run-fail test isn't valgrind-clean!", not in another failure, and
\* check_error_patterns is not entered.
C4_SentinelIsFatal ==
    (/\ config.mode = "mode_run_fail"
     /\ Len(log) >= 2
     /\ log[1].status = 0
     /\ log[2].status = 9) =>
        /\ FailedWith("run-fail test isn't valgrind-clean!")
        /\ \A i \in 1..Len(console) :
              console[i].kind \in {"newlines", "echo"} \/ i = Len(console)
        /\ ~validated.entered
        /\ Len(log) = 2

\* C4 witness: a run-fail test with patterns whose program printed a line
\* with the first pattern and exited with the status 9
C4_Witness ==
    /\ config.mode = "mode_run_fail"
    /\ Len(log) = 2
    /\ log[2].status = 9
    /\ props.error_patterns = << <<"a">> >>
    /\ procres.stdout = <<"b", "a">>
    /\ pc = "failed"

\* C5: in run-pass mode a test whose compile step and whose run step both
\* exit 0 passes, and the test is exactly two invocations, one compile and
\* then one run: no error-pattern check, no comparison and no further
\* process, whatever the patterns and the output are.
C5_CleanRunPasses ==
    (/\ config.mode = "mode_run_pass"
     /\ Len(log) >= 2
     /\ log[1].status = 0
     /\ log[2].status = 0) =>
        /\ pc = "passed"
        /\ Len(log) = 2
        /\ log[1].kind = "compile"
        /\ log[2].kind = "run"
        /\ ~validated.entered
        /\ \A i \in 1..Len(console) :
              console[i].kind \in {"newlines", "echo"}
        /\ ~ENABLED Next

\* C5 witness: a run-pass test that declares patterns, none of them on its
\* output, and passes
C5_Witness ==
    /\ config.mode = "mode_run_pass"
    /\ pc = "passed"
    /\ Len(props.error_patterns) = 2
    /\ procres.stdout = <<"b">>

\* C6: the pretty-printer maps the test's source S to S with exit 0, in
\* every round that was fed S
PrinterFixesSource ==
    \A i \in 1..Len(log) :
        (log[i].kind = "pretty" /\ log[i].input.val = srcs[1]) =>
            /\ log[i].status = 0
            /\ Len(srcs) >= i + 1
            /\ srcs[i + 1] = srcs[1]

\* C6: in pretty mode without a golden file, for a source that the
\* pretty-printer leaves unchanged, the finished test has made exactly two
\* pretty-printing rounds, the comparison found no difference, exactly one
\* type-check was run after them, on the final text, and the test passed
\* exactly when the type-check exited 0.
C6_FixedPointConverges ==
    (/\ config.mode = "mode_pretty"
     /\ ~props.pp_exact.some
     /\ Terminated
     /\ PrinterFixesSource) =>
        /\ Len(Invocations("pretty")) = 2
        /\ round = 2
        /\ expected = actual
        /\ \A i \in 1..Len(console) : console[i].kind # "diff"
        /\ Len(Invocations("typecheck")) = 1
        /\ Len(log) = 3
        /\ log[3].kind = "typecheck"
        /\ log[3].input = Some(srcs[Len(srcs)])
        /\ srcs[Len(srcs)] = srcs[1]
        /\ (log[3].status = 0 => pc = "passed")
        /\ (log[3].status # 0 => pc = "failed")

\* C6 witness: a source with a carriage return that the printer left
\* unchanged twice, type-checked and passed
C6_Witness ==
    /\ config.mode = "mode_pretty"
    /\ ~props.pp_exact.some
    /\ srcs = << <<"a", CR>>, <<"a", CR>>, <<"a", CR>> >>
    /\ pc = "passed"

\* the text without its carriage returns
NoCR(text) == SelectSeq(text, LAMBDA c : c # CR)

\* compare_source returned / compare_source failed
ComparePassed == pc = "typecheck" \/ Len(Invocations("typecheck")) > 0
CompareFailed ==
    pc = "failed" /\ Len(console) > 0 /\ LastLine.kind = "diff"

\* C7: with a golden file the comparison passes exactly when the golden
\* text and the final round's output are equal once every carriage return
\* is deleted from both; without a golden file the last two rounds'
\* outputs are compared as they are, carriage returns included.
C7_GoldenIgnoresCR ==
    (config.mode = "mode_pretty" /\ (ComparePassed \/ CompareFailed)) =>
        /\ ComparePassed # CompareFailed
        /\ IF props.pp_exact.some
           THEN ComparePassed <=> (NoCR(golden) = NoCR(srcs[Len(srcs)]))
           ELSE ComparePassed <=> (srcs[Len(srcs) - 1] = srcs[Len(srcs)])

\* C7 witness: a golden file and an output that differ by carriage returns
\* only, on both sides, passed the comparison
C7_Witness ==
    /\ config.mode = "mode_pretty"
    /\ props.pp_exact.some
    /\ golden = <<CR, "a">>
    /\ srcs[Len(srcs)] = <<"a", CR>>
    /\ ComparePassed

\* the pieces of s between blanks, the empty pieces left out: the maximal
\* runs of characters other than the blank, from left to right
TokenStarts(s) == {i \in 1..Len(s) : s[i] # SP /\ (i = 1 \/ s[i - 1] = SP)}
TokenEnd(s, i) ==
    CHOOSE j \in i..Len(s) :
        /\ \A k \in i..j : s[k] # SP
        /\ (j = Len(s) \/ s[j + 1] = SP)
Tokens(s) ==
    [n \in 1..Cardinality(TokenStarts(s)) |->
        LET i == CHOOSE x \in TokenStarts(s) :
                    Cardinality({y \in TokenStarts(s) : y < x}) = n - 1
        IN  SubSeq(s, i, TokenEnd(s, i))]
OptTokens(opt) == IF opt.some THEN Tokens(opt.val) ELSE <<>>

Whitespace == {SP, TAB, NL, CR}

\* C8, first part: the compile arguments are the test file, "-o" and the
\* executable name, then the global flags' tokens, then the test's
C8_ArgumentOrder ==
    pc = "composed_compile" =>
        composed.args =
            <<testfile, <<"-", "o">>, make_exe_name(config, testfile)>>
                \o OptTokens(config.rustcflags)
                \o OptTokens(props.compile_flags)

\* C8: the compile argument vector is the test file, "-o" and the
\* executable name followed by the tokens of the global flags and then
\* those of the test's flags, in their order, and no argument is empty or
\* made of whitespace only.
C8_CompileArgs ==
    /\ C8_ArgumentOrder
    /\ pc = "composed_compile" =>
        \A i \in 1..Len(composed.args) :
            \E j \in 1..Len(composed.args[i]) :
                composed.args[i][j] \notin Whitespace

----------------------------------------------------------------------------
(* C11: the invocations of one test are strictly sequential.               *)

\* the result held in procres is the one of the last completed invocation
Captured ==
    /\ Len(log) > 0
    /\ procres.status = log[Len(log)].status

\* C11: at most one child process is live at any time; a run child is live
\* only when the compile process has ended and its result is captured; the
\* child of pretty round N+1 is live only when round N's has ended, and its
\* input is round N's captured stdout (the test file's text in round 0);
\* a validator (check_error_patterns, compare_source) is entered only when
\* no child is live and the result it looks at is a terminated process's.
C11_StrictlySequential ==
    /\ Len(children) <= 1
    /\ \A i \in 1..Len(children) :
         LET c == children[i]
         IN  /\ c.kind = "run" =>
                  /\ Len(log) = 1
                  /\ log[1].kind = "compile"
                  /\ Captured
             /\ c.kind = "pretty" =>
                  /\ Len(Invocations("pretty")) = Len(log)
                  /\ IF Len(log) = 0
                     THEN c.input = Some(srcs[1])
                     ELSE /\ Captured
                          /\ c.input = Some(procres.stdout)
    /\ (pc \in {"check_error_patterns", "compare_source"} \/ Terminated) =>
         /\ children = <<>>
         /\ Captured

\* the child of the second pretty round is live, and what it reads is not
\* the test file's text
C11_Witness ==
    /\ Len(children) = 1
    /\ children[1].kind = "pretty"
    /\ Len(log) = 1
    /\ children[1].input # Some(srcs[1])

----------------------------------------------------------------------------
(* C12: what is printed when a test fails fatally.                         *)

\* the command line of the last invocation, put together anew from the log
LastCmdline ==
    LET e == log[Len(log)]
        lib_path == IF e.kind = "run" THEN config.run_lib_path
                    ELSE config.compile_lib_path
    IN  make_cmdline(lib_path, e.prog, e.args)

\* the last thing printed is a block with a message, the command line of
\* the last invocation and both of its captured streams
FullDiagnostic ==
    /\ Len(console) > 0
    /\ Len(log) > 0
    /\ LastLine.kind = "fatal_procres"
    /\ LastLine.msg # ""
    /\ LastLine.cmdline = LastCmdline
    /\ LastLine.stdout = procres.stdout
    /\ LastLine.stderr = procres.stderr

\* the last thing printed is a message alone, from fatal()
MessageOnly ==
    /\ Len(console) > 0
    /\ LastLine.kind = "error"
    /\ LastLine.msg \in {"no error pattern specified in ",
                         "process did not return an error status"}

\* the last things printed are compare_source's message and its block with
\* the expected and the actual text
MismatchDiagnostic ==
    /\ Len(console) > 1
    /\ console[Len(console) - 1] =
         ErrorLine("pretty-printed source does match expected source", <<>>)
    /\ LastLine = DiffBlock(expected, actual)

----------------------------------------------------------------------------
(* C13: the artifact paths of two tests on different test files.           *)

\* C13 as stated: two tests of one run on different test files never share
\* an artifact: their .out paths differ, their .err paths differ and their
\* executable paths differ.
C13_DistinctFilesDistinctArtifacts ==
    \A i, j \in 1..Len(artifacts) :
        artifacts[i].testfile # artifacts[j].testfile =>
          /\ artifacts[i].out # artifacts[j].out
          /\ artifacts[i].err # artifacts[j].err
          /\ artifacts[i].exe # artifacts[j].exe

----------------------------------------------------------------------------
(* C14: no invocation is made twice.                                       *)

\* the processes of one kind started so far, ended or still running
Started(kind) ==
    Len(Invocations(kind))
      + Cardinality({i \in 1..Len(children) : children[i].kind = kind})

\* C14: a test starts at most one compile process, at most one execution
\* of the artifact and at most one type-check, and at most one
\* pretty-printing process per round index; once it has failed fatally no
\* process is running and nothing more is started.
C14_NoRetry ==
    /\ Started("compile") <= 1
    /\ Started("run") <= 1
    /\ Started("typecheck") <= 1
    /\ Started("pretty") <= round + 1
    /\ Started("pretty") <= pretty_rounds(props)
    /\ \A i \in 1..Len(Invocations("pretty")) :
         i < Len(Invocations("pretty")) => Invocations("pretty")[i].status = 0
    /\ pc = "failed" => children = <<>> /\ ~ENABLED Next

\* a pretty test that failed in its type-check, after two rounds
C14_Witness ==
    /\ pc = "failed"
    /\ Len(Invocations("pretty")) = 2
    /\ Len(Invocations("typecheck")) = 1

----------------------------------------------------------------------------
(* C15: the run-fail and run-pass sequences.                               *)

RunKind == config.mode \in RunModes

\* the log entry of the compile step and of the run step, when made
CompileEntry == log[1]
RunEntry == log[2]

\* C15: in run-fail and run-pass mode the artifact is executed only after
\* the compile step has ended with status 0; a non-zero compile status is
\* fatal with 'compilation failed!' and the run step never happens. In
\* run-fail mode a run that ends with status 0 is fatal with "run-fail test
\* didn't produce an error!", and the error-pattern validator is entered
\* only when the run's status is neither 0 nor the valgrind sentinel; in
\* run-pass mode a non-zero run status is fatal with 'test run failed!'.
C15_RunSequences ==
    RunKind =>
      /\ Started("run") > 0 =>
           /\ Len(log) >= 1
           /\ CompileEntry.kind = "compile"
           /\ CompileEntry.status = 0
      /\ (Len(log) >= 1 /\ CompileEntry.status # 0) =>
           /\ FailedWith("compilation failed!")
           /\ Started("run") = 0
           /\ ~validated.entered
      /\ (Len(log) = 2 /\ config.mode = "mode_run_fail"
            /\ RunEntry.status = 0) =>
           FailedWith("run-fail test didn't produce an error!")
      /\ (pc = "check_error_patterns" \/ validated.entered) =>
           /\ config.mode = "mode_run_fail"
           /\ Len(log) = 2
           /\ RunEntry.kind = "run"
           /\ RunEntry.status \notin {0, valgrind_err}
      /\ (Len(log) = 2 /\ config.mode = "mode_run_pass"
            /\ RunEntry.status # 0) =>
           FailedWith("test run failed!")

\* a run-fail test whose compilation failed, and nothing was run
C15_Witness ==
    /\ config.mode = "mode_run_fail"
    /\ FailedWith("compilation failed!")
    /\ Len(log) = 1

----------------------------------------------------------------------------
(* C16: a failing-test mode without a declared error pattern.              *)

\* C16: a compile-fail or run-fail test whose list of error patterns is
\* empty never passes: check_error_patterns, once entered, fails with
\* 'no error pattern specified in <test file>' as the last thing printed,
\* no pattern index was advanced and no pattern was looked for, and the
\* message is the same whatever the exit status is.
C16_NoPatternNeverPasses ==
    /\ (config.mode \in {"mode_compile_fail", "mode_run_fail"}
          /\ Len(props.error_patterns) = 0) =>
         /\ pc # "passed"
         /\ validated.entered =>
              /\ pc = "failed"
              /\ Len(console) > 0
              /\ LastLine = ErrorLine("no error pattern specified in ",
                                      testfile)
              /\ validated = [NotValidated EXCEPT !.entered = TRUE]
    /\ \A st \in Statuses :
         precondition_failure(<<>>, st, testfile) =
           << ErrorLine("no error pattern specified in ", testfile) >>

\* a run-fail test without error patterns went into the validator and
\* failed there
C16_Witness ==
    /\ config.mode = "mode_run_fail"
    /\ Len(props.error_patterns) = 0
    /\ validated.entered
    /\ pc = "failed"

----------------------------------------------------------------------------
(* C17: what the pretty-print comparison compares.                         *)

\* compare_source has been reached and has compared
Compared ==
    config.mode = "mode_pretty" /\ (pc = "typecheck" \/ Started("typecheck") > 0
                                      \/ (pc = "failed" /\ expected # actual))

\* the stdout of the i-th pretty-printing round, as the rounds' results were
\* captured: srcs holds the test file's text and then one output per round
RoundOutput(i) == srcs[i + 1]

\* C17: a pretty test runs one round with a golden file and two without.
\* The text compared as expected is the golden file's content, read from
\* the test file's directory, when a golden file is configured, and the
\* output of the round before the last otherwise; the text compared as
\* actual is the last round's output; with a golden file every carriage
\* return is deleted from both. A difference between the two is fatal.
C17_ComparedTexts ==
    Compared =>
      LET n == Len(Invocations("pretty"))
      IN  /\ n = IF props.pp_exact.some THEN 1 ELSE 2
          /\ \A i \in 1..n : Invocations("pretty")[i].status = 0
          /\ Len(srcs) = n + 1
          /\ IF props.pp_exact.some
             THEN /\ goldenpath =
                       Some(<<"d", "/">> \o props.pp_exact.val)
                  /\ expected = NoCR(golden)
                  /\ actual = NoCR(RoundOutput(n))
             ELSE /\ goldenpath = None
                  /\ expected = RoundOutput(n - 1)
                  /\ actual = RoundOutput(n)
          /\ expected # actual =>
               /\ pc = "failed"
               /\ Started("typecheck") = 0
               /\ MismatchDiagnostic
          /\ expected = actual => pc # "failed" \/ Started("typecheck") > 0

\* without a golden file, a comparison of two round outputs that differ
\* from the test file's text
C17_Witness ==
    /\ Compared
    /\ ~props.pp_exact.some
    /\ expected = actual
    /\ expected # srcs[1]

----------------------------------------------------------------------------
(* C18: a pretty-printing round that fails.                                *)

\* C18: when the pretty-printer ends a round with a non-zero status the test
\* fails at once with 'pretty-printing failed in round <round>': that round
\* is the last invocation of the test, no golden file is read, nothing is
\* compared and no type-check is started.
C18_RoundFailureIsFatal ==
    \A i \in 1..Len(log) :
        (log[i].kind = "pretty" /\ log[i].status # 0) =>
          /\ i = Len(log)
          /\ FailedWith("pretty-printing failed in round %d")
          /\ LastLine.arg = <<i - 1>>
          /\ children = <<>>
          /\ ~ENABLED Next
          /\ goldenpath = None
          /\ golden = <<>>
          /\ expected = <<>> /\ actual = <<>>
          /\ \A k \in 1..Len(console) : console[k].kind # "diff"
          /\ Started("typecheck") = 0

\* the second round failed after a first round that printed something
C18_Witness ==
    /\ Len(log) = 2
    /\ log[2].kind = "pretty"
    /\ log[2].status # 0
    /\ log[2].input.val # <<>>

----------------------------------------------------------------------------
(* C19: the type-check of the pretty-printed source.                       *)

\* the type-check processes started so far, running or ended
Typechecks ==
    SelectSeq(children, LAMBDA c : c.kind = "typecheck")
      \o [i \in 1..Len(Invocations("typecheck")) |->
            Child("typecheck", Invocations("typecheck")[i],
                  Invocations("typecheck")[i].input)]

\* the output of the last round, as it is compared
FinalText ==
    IF props.pp_exact.some THEN NoCR(srcs[Len(srcs)]) ELSE srcs[Len(srcs)]

\* C19: the type-check is started only after a comparison that found the
\* expected and the actual text equal, and its input is the text compared
\* as actual: the last round's output, without its carriage returns when a
\* golden file is configured. A non-zero type-check status is fatal with
\* 'pretty-printed source does not typecheck', and a pretty test passes
\* only with a type-check that ended with status 0.
C19_TypecheckOfActual ==
    config.mode = "mode_pretty" =>
      /\ \A i \in 1..Len(Typechecks) :
           /\ Len(Invocations("pretty")) = pretty_rounds(props)
           /\ expected = IF props.pp_exact.some THEN NoCR(golden)
                         ELSE srcs[Len(srcs) - 1]
           /\ actual = FinalText
           /\ expected = actual
           /\ Typechecks[i].input = Some(FinalText)
      /\ \A i \in 1..Len(log) :
           log[i].kind = "typecheck" =>
             /\ i = Len(log)
             /\ log[i].status # 0 =>
                  FailedWith("pretty-printed source does not typecheck")
             /\ log[i].status = 0 => pc = "passed"
      /\ pc = "passed" =>
           /\ Len(log) > 0
           /\ log[Len(log)].kind = "typecheck"
           /\ log[Len(log)].status = 0

\* with a golden file, a type-check was fed a text that is not the last
\* round's output as printed, because that held a carriage return
C19_Witness ==
    /\ config.mode = "mode_pretty"
    /\ props.pp_exact.some
    /\ Len(Invocations("typecheck")) = 1
    /\ Invocations("typecheck")[1].input # Some(srcs[Len(srcs)])

----------------------------------------------------------------------------
(* C20: the artifacts and the console echo.                                *)

\* what maybe_dump_to_stdout wrote to the console so far
Echoes == SelectSeq(console, LAMBDA l : l.kind = "echo")

\* the console echo: one per completed invocation when verbose, the last of
\* them showing the last invocation's streams; none otherwise
EchoOnlyWhenVerbose ==
    IF config.verbose
    THEN /\ Len(Echoes) = Len(log)
         /\ Len(log) > 0 =>
              /\ Echoes[Len(Echoes)].stdout = procres.stdout
              /\ Echoes[Len(Echoes)].stderr = procres.stderr
    ELSE Len(Echoes) = 0

\* C20 as stated: after every completed invocation the .out artifact holds
\* exactly the stdout and the .err artifact exactly the stderr of the most
\* recently completed invocation; the streams are echoed to the console
\* only when verbose.
C20_ArtifactsHoldLastStreams ==
    /\ Len(log) > 0 =>
         /\ Captured
         /\ outfile = procres.stdout
         /\ errfile = procres.stderr
    /\ EchoOnlyWhenVerbose

\* C20, amended: on the linux and win32 builds the artifacts hold exactly
\* the streams of the most recently completed invocation, written before
\* the handler judges the result; on the macos build dump_output_file does
\* nothing and the artifacts are never written. On every build the streams
\* are echoed to the console exactly when verbose.
C20_ArtifactsByBuild ==
    /\ Len(log) = 0 => outfile = <<>> /\ errfile = <<>>
    /\ (Len(log) > 0 /\ target_os # "macos") =>
         /\ Captured
         /\ outfile = procres.stdout
         /\ errfile = procres.stderr
    /\ target_os = "macos" => outfile = <<>> /\ errfile = <<>>
    /\ EchoOnlyWhenVerbose

\* on linux, the second round of a pretty test printed nothing and left an
\* empty .out artifact where the first round's output had been
C20_Witness ==
    /\ target_os = "linux"
    /\ config.mode = "mode_pretty"
    /\ Len(log) = 2
    /\ Len(srcs[2]) > 0
    /\ outfile = <<>>
    /\ errfile = procres.stderr

----------------------------------------------------------------------------
(* C21: the valgrind status of a program that ran without the wrapper.     *)

\* the run step was made, and the program run was the compiled executable
\* itself, without a wrapper tool in front of it
RanWithoutWrapper ==
    /\ Len(log) >= 2
    /\ log[2].kind = "run"
    /\ log[2].prog = make_exe_name(config, testfile)
    /\ log[2].args = <<>>
    /\ (~config.runtool.some \/ props.no_valgrind)

\* C21: in run-fail mode, when no wrapper tool is configured or the test
\* suppresses it, a compiled program that itself ends with the status 9 is
\* reported as "run-fail test isn't valgrind-clean!": its error patterns
\* are never checked and the test does not pass, whatever it printed.
C21_SentinelWithoutWrapper ==
    (/\ config.mode = "mode_run_fail"
     /\ RanWithoutWrapper
     /\ log[2].status = valgrind_err) =>
        /\ FailedWith("run-fail test isn't valgrind-clean!")
        /\ ~validated.entered
        /\ pc # "passed"
        /\ ~ENABLED Next

\* a run-fail test that suppresses the configured wrapper: the program
\* printed the line its pattern asks for and ended with the status 9
C21_Witness ==
    /\ config.mode = "mode_run_fail"
    /\ config.runtool.some
    /\ props.no_valgrind
    /\ RanWithoutWrapper
    /\ log[2].status = valgrind_err
    /\ props.error_patterns = << <<"a">> >>
    /\ procres.stdout = <<"b", "a">>

----------------------------------------------------------------------------
(* C22: the validator's status precondition, seen from the dispatcher.     *)

\* what fatal() prints when check_error_patterns finds a zero status
NoErrorStatusLine ==
    ErrorLine("process did not return an error status", <<>>)

\* C22: in every run of compile-fail or run-fail mode check_error_patterns
\* is entered only with the result of a process that ended with a non-zero
\* status, so its failure 'process did not return an error status' is never
\* printed: a zero status has been turned into the mode's own fatal failure
\* before.
C22_StatusPreconditionUnreachable ==
    /\ (pc = "check_error_patterns" \/ validated.entered) =>
         /\ config.mode \in {"mode_compile_fail", "mode_run_fail"}
         /\ Captured
         /\ procres.status # 0
         /\ log[Len(log)].status # 0
         /\ precondition_failure(props.error_patterns, procres.status,
                                 testfile) # << NoErrorStatusLine >>
    /\ \A i \in 1..Len(console) : console[i] # NoErrorStatusLine
    /\ (Len(log) > 0 /\ log[Len(log)].status = 0
          /\ log[Len(log)].kind = (IF config.mode = "mode_compile_fail"
                                   THEN "compile" ELSE "run")
          /\ config.mode \in {"mode_compile_fail", "mode_run_fail"}) =>
         /\ pc = "failed"
         /\ ~validated.entered
         /\ LastLine.kind = "fatal_procres"
         /\ LastLine.msg \in {"compile-fail test compiled successfully!",
                              "run-fail test didn't produce an error!"}

\* a compile-fail test with patterns went through the validator, which
\* scanned the output of a compiler that ended with a non-zero status
C22_Witness ==
    /\ config.mode = "mode_compile_fail"
    /\ validated.entered
    /\ Len(props.error_patterns) > 0
    /\ procres.status # 0
    /\ validated.next_err_idx > 0

----------------------------------------------------------------------------
(* C23: get_fn memoizes per instance.                                      *)

\* the calls of get_fn made for the instance i, as indices into calls
CallsFor(i) == {k \in 1..Len(calls) : calls[k].instance = i}

\* the call changed the module: it declared an item or set something on one
Touched(k) == calls[k].before # calls[k].after

\* C23: after any sequence of get_fn calls on one codegen context every
\* instance that was asked for is in cx.instances with the value its call
\* returned; a repeated call for an instance returns the value of the
\* first call and leaves the module as it is (nothing declared, no linkage
\* or visibility changed); and the module is changed by at most one call
\* per instance, which then adds exactly the instance's symbol.
C23_GetFnMemoizes ==
    /\ \A k \in 1..Len(calls) :
         /\ calls[k].instance \in DOMAIN cx.instances
         /\ cx.instances[calls[k].instance] = calls[k].ret
         /\ Touched(k) =>
              \E inst \in Instances :
                /\ inst.id = calls[k].instance
                /\ inst.sym \notin DOMAIN calls[k].before
                /\ DOMAIN calls[k].after =
                     DOMAIN calls[k].before \cup {inst.sym}
                /\ \A n \in DOMAIN calls[k].before :
                     calls[k].after[n] = calls[k].before[n]
    /\ \A j, k \in 1..Len(calls) :
         (j < k /\ calls[j].instance = calls[k].instance) =>
           /\ calls[k].ret = calls[j].ret
           /\ ~Touched(k)
    /\ \A inst \in Instances :
         Cardinality({k \in CallsFor(inst.id) : Touched(k)}) <= 1

\* an instance was asked for twice; its first call declared an item with
\* hidden visibility, its second call was answered from the cache
C23_Witness ==
    /\ Len(calls) >= 2
    /\ calls[1].instance = calls[2].instance
    /\ Touched(1)
    /\ \E n \in DOMAIN calls[1].after :
         /\ n \notin DOMAIN calls[1].before
         /\ calls[1].after[n].visibility = "hidden"
    /\ calls[2].ret = calls[1].ret

====
